---- MODULE Spec2Model ----
(***************************************************************************)
(* A model of nemo/collections/vlm/llava_next/model/base.py:               *)
(*   llava_next_data_step, LlavaNextConfig.configure_model and             *)
(*   MCoreLlavaNextModel.forward, together with the two helpers forward    *)
(*   calls (pack_image_features, merge_input_ids_with_image_features),     *)
(*   whose code lives in model/utils.py and is modelled from the           *)
(*   specification.                                                        *)
(* Tensors are modelled by their shapes; the external modules (vision      *)
(* model, projection, embedding, language model) by the shapes they map.   *)
(***************************************************************************)
EXTENDS Integers, Sequences, FiniteSets, TLC

VARIABLES
    model,      \* the constructed MCoreLlavaNextModel: its flags
    kv,         \* inference_params.key_value_memory_dict: the keys it holds
    pc,         \* position of the caller of forward: idle / called / returned
    args,       \* the arguments of the forward call in progress
    out,        \* what the last forward call did and returned
    cfg,        \* LlavaNextConfig and parallel state seen by configure_model
    built,      \* the outcome of configure_model
    dstep,      \* llava_next_data_step: input batch, stage, dict handed on
    pk,         \* pack_image_features: input and result
    fz          \* merge_input_ids_with_image_features: input and result

vars == <<model, kv, pc, args, out, cfg, built, dstep, pk, fz>>

\* ------------------------------------------------------------------ bounds
MaxTiles == 2        \* media.shape[0] ranges over 0..MaxTiles
MaxImgSeqLen == 2    \* tokens per tile produced by the vision model
MaxTextLen == 3      \* input_ids.shape[1] ranges over 1..MaxTextLen
MaxTP == 2           \* tensor-parallel world size ranges over 1..MaxTP
MaxPP == 3           \* pipeline-parallel size ranges over 1..MaxPP
MaxEnc == 2          \* encoder_pipeline_model_parallel_size ranges over -1..MaxEnc
MaxImages == 2       \* images (media segments) in one pack or merge call
MaxGrid == 2         \* rows and columns of an image's tile grid: 0..MaxGrid
MaxSepLen == 2       \* slots one row separator occupies: 1..MaxSepLen
MaxFeatLen == 2      \* feature length of one media segment: 0..MaxFeatLen

\* ------------------------------------------------------------ small helpers
RECURSIVE SumSeq(_)
SumSeq(s) == IF s = <<>> THEN 0 ELSE Head(s) + SumSeq(Tail(s))

Max2(a, b) == IF a >= b THEN a ELSE b

\* every sequence of positive integers whose sum is n (the ways n tiles are
\* shared among images)
RECURSIVE Compositions(_)
Compositions(n) ==
    IF n = 0 THEN {<<>>}
    ELSE UNION {{<<k>> \o c : c \in Compositions(n - k)} : k \in 1..n}

\* tensor shapes; hidden names the size of the last dimension
Tensor(a, b, h) == [kind |-> "tensor", d0 |-> a, d1 |-> b, hidden |-> h]
NoneValue == [kind |-> "None", d0 |-> 0, d1 |-> 0, hidden |-> "-"]

\* ------------------------------------------------------ configure_model
IsPipelineFirstStage(r) == r = 0
IsPipelineLastStage(P, r) == r = P - 1

\* the assertion of line 145
EncoderSizeAccepted(e) == e > 0 => e = 1

PreProcess(P, r, e) == IsPipelineFirstStage(r) \/ r = e
PostProcess(P, r, e) == IsPipelineLastStage(P, r)
AddEncoder(P, r, e) == IsPipelineFirstStage(r)
\* a slip of line 163: > for >=
AddDecoderStrict(P, r, e) == IsPipelineLastStage(P, r) \/ r > e
AddDecoder(P, r, e) == IsPipelineLastStage(P, r) \/ r >= e

\* tensor_model_parallel_size given to the vision transformer and projection
VisionTP(c) ==
    IF c.e > 0 /\ c.etp > 0 THEN c.etp ELSE c.tp

ConfigureModel(c) ==
    IF ~EncoderSizeAccepted(c.e)
    THEN [status |-> "AssertionError",
          pre_process |-> FALSE, post_process |-> FALSE,
          add_encoder |-> FALSE, add_decoder |-> FALSE,
          drop_vision_class_token |-> FALSE,
          sequence_parallel_lm |-> FALSE, tp_world_size |-> c.tp,
          vision_tp |-> c.tp, img_seq_len |-> c.img_seq_len]
    ELSE [status |-> "model",
          pre_process |-> PreProcess(c.P, c.r, c.e),
          post_process |-> PostProcess(c.P, c.r, c.e),
          add_encoder |-> AddEncoder(c.P, c.r, c.e),
          add_decoder |-> AddDecoder(c.P, c.r, c.e),
          drop_vision_class_token |-> c.drop,
          sequence_parallel_lm |-> c.sp, tp_world_size |-> c.tp,
          vision_tp |-> VisionTP(c), img_seq_len |-> c.img_seq_len]

Configs ==
    {[P |-> P, r |-> r, e |-> e, tp |-> tp, etp |-> etp, sp |-> sp,
      drop |-> drop, img_seq_len |-> s] :
        P \in 1..MaxPP, r \in 0..(MaxPP - 1), e \in (-1)..MaxEnc,
        tp \in 1..MaxTP, etp \in 0..1, sp \in BOOLEAN, drop \in BOOLEAN,
        s \in 1..MaxImgSeqLen}

ValidConfigs == {c \in Configs : c.r < c.P}

NoConfig == [P |-> 0, r |-> 0, e |-> 0, tp |-> 0, etp |-> 0, sp |-> FALSE,
             drop |-> FALSE, img_seq_len |-> 0]
NoModel == [status |-> "none",
            pre_process |-> FALSE, post_process |-> FALSE,
            add_encoder |-> FALSE, add_decoder |-> FALSE,
            drop_vision_class_token |-> FALSE,
            sequence_parallel_lm |-> FALSE, tp_world_size |-> 0,
            vision_tp |-> 0, img_seq_len |-> 0]

\* ------------------------------------------------- MCoreLlavaNextModel.forward
\* the flags and sizes forward reads from the constructed model
ModelFlags(b) ==
    [pre_process |-> b.pre_process,
     add_encoder |-> b.add_encoder, add_decoder |-> b.add_decoder,
     drop_vision_class_token |-> b.drop_vision_class_token,
     sequence_parallel_lm |-> b.sequence_parallel_lm,
     tp_world_size |-> b.tp_world_size, img_seq_len |-> b.img_seq_len]

\* line 249 reads this key, line 287 writes that one
CacheKeyRead == "image_tokens_count"
CacheKeyWritten == "media_tokens_count"

UseInferenceKvCache(useInf, keys) == useInf /\ CacheKeyRead \in keys
HasImages(T) == T > 0

\* getattr(self.vision_model, "class_token_len", 1)
ClassTokenLen == 1

\* tokens per tile left after the optional class token drop (lines 273-275);
\* a slice past the end is empty
TileSeqLen(m) ==
    IF m.drop_vision_class_token
    THEN Max2(m.img_seq_len - ClassTokenLen, 0)
    ELSE m.img_seq_len

\* vision model gives [num_tiles, img_seq_len, h_vision]; permute(1, 0, 2) and
\* the projection give [img_seq_len, num_tiles, h_language] (lines 263-281)
VisionModel(m, T) == Tensor(T, TileSeqLen(m), "h_vision")
Permute102(t) == Tensor(t.d1, t.d0, t.hidden)
VisionProjection(t) == Tensor(t.d0, t.d1, "h_language")
EncodeMedia(m, T) == VisionProjection(Permute102(VisionModel(m, T)))

\* torch.tensor([]).reshape(0, 0, 0), line 259
EmptyEmbeddings == Tensor(0, 0, "0")

\* what the encoder stage computes for a micro-batch of T tiles: on a
\* decoder-only stage this is the hand-off held in self.encoder_hidden_state
EncoderHiddenState(m, T) ==
    IF HasImages(T) THEN EncodeMedia(m, T) ELSE EmptyEmbeddings

\* the branch of lines 257-259 left out: an empty micro-batch reaches the encoder
MediaStageNoEmptyBranch(m, keys, a) ==
    IF UseInferenceKvCache(a.useInf, keys)
    THEN [emb |-> NoneValue, invoked |-> {}, keys |-> keys]
    ELSE IF m.add_encoder
    THEN [emb |-> EncodeMedia(m, a.T),
          invoked |-> {"vision_model", "vision_projection"},
          keys |-> IF a.useInf THEN keys \cup {CacheKeyWritten} ELSE keys]
    ELSE [emb |-> EncoderHiddenState(m, a.T), invoked |-> {}, keys |-> keys]

\* lines 248-291: the media embeddings, the modules invoked, the cache after
MediaStage(m, keys, a) ==
    IF UseInferenceKvCache(a.useInf, keys)
    THEN [emb |-> NoneValue, invoked |-> {}, keys |-> keys]
    ELSE IF m.add_encoder /\ ~HasImages(a.T)
    THEN [emb |-> EmptyEmbeddings, invoked |-> {}, keys |-> keys]
    ELSE IF m.add_encoder /\ HasImages(a.T)
    THEN [emb |-> EncodeMedia(m, a.T),
          invoked |-> {"vision_model", "vision_projection"},
          keys |-> IF a.useInf THEN keys \cup {CacheKeyWritten} ELSE keys]
    ELSE [emb |-> EncoderHiddenState(m, a.T), invoked |-> {}, keys |-> keys]

\* a slip of line 308: + tp_world_size for + tp_world_size - 1
PaddedSeqLenOffByOne(L, W) == ((L + W) \div W) * W - L

\* lines 307-310
PaddedSeqLen(L, W) == ((L + W - 1) \div W) * W - L

\* torch.nn.functional.pad(x, (0, p)) on the sequence dimension
PadRight(len, p) == len + p

\* the sequence-parallel embedding keeps one shard of the sequence per rank;
\* gather_from_sequence_parallel_region joins the W shards
EmbeddingShard(len, W) == len \div W
GatherFromSequenceParallelRegion(len, W) == len * W

\* x[:-p] for p > 0
StripRight(len, p) == Max2(len - p, 0)

\* lines 296-329: lengths of the text side after the embedding lookup.
\* lang is the length of language_embeddings, ids that of input_ids, pos that
\* of position_ids as the rest of forward sees them (-1: None).
TextStage(m, a) ==
    IF ~m.pre_process
    THEN [lang |-> -1, ids |-> a.L, pos |-> IF a.posGiven THEN a.L ELSE -1,
          p |-> 0, padded |-> FALSE, stripped |-> FALSE, invoked |-> {}]
    ELSE IF ~m.sequence_parallel_lm
    THEN [lang |-> a.L, ids |-> a.L, pos |-> IF a.posGiven THEN a.L ELSE -1,
          p |-> 0, padded |-> FALSE, stripped |-> FALSE,
          invoked |-> {"embedding"}]
    ELSE LET W == m.tp_world_size
             p == PaddedSeqLen(a.L, W)
             idsText == IF p # 0 THEN PadRight(a.L, p) ELSE a.L
             pos == IF ~a.posGiven THEN -1
                    ELSE IF p # 0 THEN PadRight(a.L, p) ELSE a.L
             gathered == GatherFromSequenceParallelRegion(
                             EmbeddingShard(idsText, W), W)
         IN  [lang |-> IF p # 0 THEN StripRight(gathered, p) ELSE gathered,
              ids |-> a.L, pos |-> pos, p |-> p,
              padded |-> p # 0, stripped |-> p # 0,
              invoked |-> {"embedding", "gather"}]

\* lines 331-335
NumMediaTiles(a) ==
    IF a.tilesGiven THEN a.tiles ELSE [i \in 1..a.T |-> 1]

\* line 337: torch.split(media_embeddings, sizes, dim=0)
SplitDim == 0
DimSize(t, dim) == IF dim = 0 THEN t.d0 ELSE t.d1
SplitOk(t, sizes, dim) ==
    t.kind = "tensor" /\ SumSeq(sizes) = DimSize(t, dim)
SplitPieces(t, sizes, dim) ==
    [i \in 1..Len(sizes) |->
        IF dim = 0 THEN Tensor(sizes[i], t.d1, t.hidden)
        ELSE Tensor(t.d0, sizes[i], t.hidden)]
TorchSplit(t, sizes) ==
    IF SplitOk(t, sizes, SplitDim)
    THEN [ok |-> TRUE, pieces |-> SplitPieces(t, sizes, SplitDim)]
    ELSE [ok |-> FALSE, pieces |-> <<>>]

\* line 370 testing labels alone
ReturnsPairOnLabels(a) == a.labelsGiven

\* lines 370-373
ReturnsPair(a) == ~(~a.labelsGiven \/ ~a.lossMaskGiven)

\* line 293
ReturnsEmbeddings(m) == ~m.add_decoder

NoOut == [result |-> "none", emb |-> NoneValue, invoked |-> {},
          text |-> [lang |-> -1, ids |-> -1, pos |-> -1, p |-> 0,
                    padded |-> FALSE, stripped |-> FALSE, invoked |-> {}],
          splitOk |-> FALSE, pieces |-> <<>>, cachedBefore |-> FALSE]
NoArgs == [T |-> 0, tilesGiven |-> FALSE, tiles |-> <<>>, L |-> 0,
           posGiven |-> FALSE, labelsGiven |-> FALSE, lossMaskGiven |-> FALSE,
           useInf |-> FALSE, extOk |-> FALSE]

\* the whole of forward, lines 248-373
ForwardResult(m, keys, a) ==
    LET ms == MediaStage(m, keys, a)
        cached == a.useInf /\ CacheKeyWritten \in keys
    IN  IF ReturnsEmbeddings(m)
        THEN [NoOut EXCEPT !.result = "media_embeddings", !.emb = ms.emb,
                           !.invoked = ms.invoked, !.cachedBefore = cached]
        ELSE
        LET ts == TextStage(m, a)
            sp == TorchSplit(ms.emb, NumMediaTiles(a))
            base == [NoOut EXCEPT !.emb = ms.emb, !.text = ts,
                                  !.cachedBefore = cached,
                                  !.splitOk = sp.ok, !.pieces = sp.pieces]
            upto == ms.invoked \cup ts.invoked
        IN  IF ~sp.ok
            THEN [base EXCEPT !.result = "raised", !.invoked = upto]
            ELSE IF ~a.extOk
            THEN [base EXCEPT !.result = "raised",
                              !.invoked = upto \cup {"pack_image_features"}]
            ELSE [base EXCEPT
                    !.result = IF ReturnsPair(a) THEN "pair" ELSE "output",
                    !.invoked = upto \cup {"pack_image_features",
                        "merge_input_ids_with_image_features",
                        "language_model"}]

ForwardArgs ==
    {[T |-> T, tilesGiven |-> g, tiles |-> t, L |-> L, posGiven |-> pg,
      labelsGiven |-> lg, lossMaskGiven |-> mg, useInf |-> ui, extOk |-> ok] :
        T \in 0..MaxTiles, g \in BOOLEAN,
        t \in UNION {Compositions(n) : n \in 0..MaxTiles},
        L \in 1..MaxTextLen, pg \in BOOLEAN, lg \in BOOLEAN, mg \in BOOLEAN,
        ui \in BOOLEAN, ok \in BOOLEAN}

\* num_media_tiles, when given, shares the T tiles of media among the images
ValidForwardArgs ==
    {a \in ForwardArgs :
        IF a.tilesGiven THEN SumSeq(a.tiles) = a.T ELSE a.tiles = <<>>}

ForwardIdle ==
    /\ kv = {} /\ pc = "idle" /\ args = NoArgs /\ out = NoOut
ConfigIdle == cfg = NoConfig /\ built = NoModel

\* ---- the caller of forward (llava_next_forward_step, lines 101-114, or the
\* ---- inference loop, which passes one InferenceParams to successive calls)
Call(a) ==
    /\ pc = "idle"
    /\ args' = a
    /\ pc' = "called"
    /\ UNCHANGED <<model, kv, out, cfg, built, dstep, pk, fz>>

Forward ==
    /\ pc = "called"
    /\ out' = ForwardResult(model, kv, args)
    /\ kv' = MediaStage(model, kv, args).keys
    /\ pc' = "returned"
    /\ UNCHANGED <<model, args, cfg, built, dstep, pk, fz>>

Return ==
    /\ pc = "returned"
    /\ pc' = "idle"
    /\ args' = NoArgs
    /\ out' = NoOut
    /\ UNCHANGED <<model, kv, cfg, built, dstep, pk, fz>>

\* the caller starts a new sequence with a fresh InferenceParams
NewInferenceParams ==
    /\ pc = "idle"
    /\ kv # {}
    /\ kv' = {}
    /\ UNCHANGED <<model, pc, args, out, cfg, built, dstep, pk, fz>>

\* the configure_model step of a rank
Configure ==
    /\ built.status = "none"
    /\ built' = ConfigureModel(cfg)
    /\ UNCHANGED <<model, kv, pc, args, out, cfg, dstep, pk, fz>>

\* ------------------------------------------------------ llava_next_data_step
BaseKeys == {"tokens", "attention_mask", "media", "num_media_tiles", "image_sizes"}
FirstStageKeys == {"position_ids"}
LastStageKeys == {"labels", "loss_mask"}

\* the stage tests of lines 66 and 68 left out
RequiredKeysAllStages(first, last) ==
    BaseKeys \cup FirstStageKeys \cup LastStageKeys

\* lines 56-74
RequiredKeys(first, last) ==
    BaseKeys \cup (IF first THEN FirstStageKeys ELSE {})
             \cup (IF last THEN LastStageKeys ELSE {})

\* keys a dataloader batch may hold: the named ones and one more
BatchKeys == BaseKeys \cup FirstStageKeys \cup LastStageKeys \cup {"cu_seqlens"}

\* a batch maps each key it holds to None or to a tensor in host memory
BatchesOver(keys) == UNION {[K -> {"None", "cpu"}] : K \in SUBSET keys}

\* lines 76-79: val.cuda() for a required non-null value, None otherwise
SelectAndTransfer(b, required) ==
    [key \in DOMAIN b |->
        IF key \in required /\ b[key] # "None" THEN "cuda" ELSE "None"]

\* lines 49-81: next(dataloader_iter) is b, or the 3-tuple (b, _, _)
DataStepIdle == [pc |-> "idle", batch |-> <<>>, asTuple |-> FALSE,
                 first |-> FALSE, last |-> FALSE, handed |-> <<>>]

DataStep(b, asTuple, first, last) ==
    /\ dstep.pc = "idle"
    /\ dstep' = [pc |-> "done", batch |-> b, asTuple |-> asTuple,
                 first |-> first, last |-> last,
                 handed |-> SelectAndTransfer(b, RequiredKeys(first, last))]
    /\ UNCHANGED <<model, kv, pc, args, out, cfg, built, pk, fz>>

\* ------------------------------------------------------ pack_image_features
\* (model/utils.py; modelled from the specification, section 4.1)
TileBlock(idx, S) == [k \in 1..S |-> <<"tile", idx, k>>]
Separator(r, sep) == [k \in 1..sep |-> <<"newline", r, k>>]

RECURSIVE PackRowTiles(_, _, _, _)
\* the blocks of row r, columns c..C, in row-major tile order
PackRowTiles(r, c, C, S) ==
    IF c > C THEN <<>>
    ELSE TileBlock((r - 1) * C + c, S) \o PackRowTiles(r, c + 1, C, S)

RECURSIVE PackRows(_, _, _, _, _)
\* rows r..R, a separator after every row except the last
PackRows(r, R, C, S, sep) ==
    IF r > R THEN <<>>
    ELSE PackRowTiles(r, 1, C, S)
         \o (IF r < R THEN Separator(r, sep) ELSE <<>>)
         \o PackRows(r + 1, R, C, S, sep)

PackImage(img, S, sep) ==
    IF img.tiles = 0 THEN <<>> ELSE PackRows(1, img.R, img.C, S, sep)

ShapeMismatch(img) == img.tiles # 0 /\ img.tiles # img.R * img.C

PackImageFeatures(images, S, sep) ==
    IF \E i \in 1..Len(images) : ShapeMismatch(images[i])
    THEN [status |-> "ShapeMismatch", packed |-> <<>>, feature_lens |-> <<>>]
    ELSE LET packed == [i \in 1..Len(images) |-> PackImage(images[i], S, sep)]
         IN  [status |-> "ok", packed |-> packed,
              feature_lens |-> [i \in 1..Len(images) |-> Len(packed[i])]]

\* an image: its tile count and the grid its size asks for
PackImages ==
    {[tiles |-> R * C + x, R |-> R, C |-> C] :
        R \in 0..MaxGrid, C \in 0..MaxGrid, x \in 0..1}
PackInputs(maxImages) ==
    {[images |-> im, S |-> S, sep |-> sep] :
        im \in UNION {[1..n -> PackImages] : n \in 0..maxImages},
        S \in 1..MaxImgSeqLen, sep \in 1..MaxSepLen}

\* image_newline left out of the call: no separator is inserted
PackCallNoNewline(in) == PackImageFeatures(in.images, in.S, 0)

\* lines 338-343: the call forward makes, image_newline being the separator
PackCall(in) == PackImageFeatures(in.images, in.S, in.sep)

PackIdle == [pc |-> "idle", images |-> <<>>, S |-> 0, sep |-> 0,
             res |-> [status |-> "none", packed |-> <<>>, feature_lens |-> <<>>]]

Pack(in) ==
    /\ pk.pc = "idle"
    /\ pk' = [pc |-> "done", images |-> in.images, S |-> in.S, sep |-> in.sep,
              res |-> PackCall(in)]
    /\ UNCHANGED <<model, kv, pc, args, out, cfg, built, dstep, fz>>

\* ---------------------------------------- merge_input_ids_with_image_features
\* (model/utils.py; modelled from the specification, section 4.2)
IMAGE_TOKEN_INDEX == -200

\* lines 298-300: the ids given to the embedding lookup, sentinels set to 0
InputIdsText(ids) == [i \in 1..Len(ids) |-> IF ids[i] < 0 THEN 0 ELSE ids[i]]

\* input_ids_text handed to the merge in place of input_ids
FusionInputIdsText(ids) == InputIdsText(ids)

\* line 350: forward hands input_ids itself to the merge
FusionInputIds(ids) == ids

Sentinels(ids) == Cardinality({i \in 1..Len(ids) : ids[i] = IMAGE_TOKEN_INDEX})

IgnoreLabel == <<"ignore", 0>>
PadEmbedding == <<"pad", 0, 0>>

RECURSIVE FuseFrom(_, _, _, _, _)
\* tokens i.. of one batch element; nextSeg is the next unconsumed segment
FuseFrom(ids, i, lens, nextSeg, labelled) ==
    IF i > Len(ids) THEN <<>>
    ELSE IF ids[i] = IMAGE_TOKEN_INDEX
    THEN [k \in 1..lens[nextSeg] |->
            [emb |-> <<"media", nextSeg, k>>,
             label |-> IF k = 1 /\ labelled THEN <<"label", i>>
                       ELSE IgnoreLabel]]
         \o FuseFrom(ids, i + 1, lens, nextSeg + 1, labelled)
    ELSE <<[emb |-> <<"text", i, 0>>, label |-> <<"label", i>>]>>
         \o FuseFrom(ids, i + 1, lens, nextSeg, labelled)

RECURSIVE Count(_, _)
\* the running position counter: 0, 1, ... over n positions
Count(from, n) == IF n = 0 THEN <<>> ELSE <<from>> \o Count(from + 1, n - 1)

Repeat(x, n) == [k \in 1..n |-> x]

\* one element expanded, then right-padded to maxLen
FuseElement(fused, maxLen) ==
    LET n == Len(fused)
        pad == maxLen - n
    IN  [valid |-> n,
         emb |-> [j \in 1..n |-> fused[j].emb] \o Repeat(PadEmbedding, pad),
         attention_mask |-> Repeat(1, n) \o Repeat(0, pad),
         position_ids |-> Count(0, n) \o Repeat(0, pad),
         labels |-> [j \in 1..n |-> fused[j].label] \o Repeat(IgnoreLabel, pad),
         loss_mask |-> [j \in 1..n |->
                          IF fused[j].label = IgnoreLabel THEN 0 ELSE 1]
                       \o Repeat(0, pad)]

MergeInputIdsWithImageFeatures(lens, ids1, ids2, labelled) ==
    IF Sentinels(ids1) + Sentinels(ids2) # Len(lens)
    THEN [status |-> "SequenceAlignmentError", maxLen |-> 0, elems |-> <<>>]
    ELSE LET f1 == FuseFrom(ids1, 1, lens, 1, labelled)
             f2 == FuseFrom(ids2, 1, lens, 1 + Sentinels(ids1), labelled)
             maxLen == Max2(Len(f1), Len(f2))
         IN  [status |-> "ok", maxLen |-> maxLen,
              elems |-> <<FuseElement(f1, maxLen), FuseElement(f2, maxLen)>>]

\* lines 345-356: the call forward makes
FusionCall(in) ==
    MergeInputIdsWithImageFeatures(in.feature_lens, FusionInputIds(in.ids1),
                                   FusionInputIds(in.ids2), in.labelled)

Texts == UNION {[1..n -> {5, IMAGE_TOKEN_INDEX}] : n \in 1..MaxTextLen}
FusionInputs(maxImages) ==
    {[ids1 |-> a, ids2 |-> b, feature_lens |-> l, labelled |-> g] :
        a \in Texts, b \in Texts,
        l \in UNION {[1..n -> 0..MaxFeatLen] : n \in 0..maxImages},
        g \in BOOLEAN}

FuseIdle == [pc |-> "idle", ids1 |-> <<>>, ids2 |-> <<>>, feature_lens |-> <<>>,
             labelled |-> FALSE,
             res |-> [status |-> "none", maxLen |-> 0, elems |-> <<>>]]

Merge(in) ==
    /\ fz.pc = "idle"
    /\ fz' = [pc |-> "done", ids1 |-> in.ids1, ids2 |-> in.ids2,
              feature_lens |-> in.feature_lens, labelled |-> in.labelled,
              res |-> FusionCall(in)]
    /\ UNCHANGED <<model, kv, pc, args, out, cfg, built, dstep, pk>>

\* --------------------------------------------------------- specifications
ModelIdle == model = ModelFlags(NoModel)

\* forward calls on one constructed model
InitForward ==
    /\ \E c \in ValidConfigs :
          /\ EncoderSizeAccepted(c.e)
          /\ model = ModelFlags(ConfigureModel(c))
    /\ ForwardIdle /\ ConfigIdle
    /\ dstep = DataStepIdle /\ pk = PackIdle /\ fz = FuseIdle
NextForward ==
    \/ pc = "idle" /\ \E a \in ValidForwardArgs : Call(a)
    \/ Forward
    \/ Return
    \/ NewInferenceParams
SpecForward == InitForward /\ [][NextForward]_vars

\* configure_model on every rank of every accepted or rejected configuration
InitConfig ==
    /\ cfg \in ValidConfigs /\ built = NoModel
    /\ ModelIdle /\ ForwardIdle
    /\ dstep = DataStepIdle /\ pk = PackIdle /\ fz = FuseIdle
NextConfig == Configure
SpecConfig == InitConfig /\ [][NextConfig]_vars

\* one data step on one batch
InitData ==
    /\ dstep = DataStepIdle
    /\ ModelIdle /\ ForwardIdle /\ ConfigIdle /\ pk = PackIdle /\ fz = FuseIdle
NextData ==
    dstep.pc = "idle" /\
    \E b \in BatchesOver(BatchKeys), t \in BOOLEAN, first \in BOOLEAN, last \in BOOLEAN :
        DataStep(b, t, first, last)
SpecData == InitData /\ [][NextData]_vars

\* tile packing applied to every bounded input
InitPack ==
    /\ pk = PackIdle
    /\ ModelIdle /\ ForwardIdle /\ ConfigIdle
    /\ dstep = DataStepIdle /\ fz = FuseIdle
NextPack == pk.pc = "idle" /\ \E in \in PackInputs(MaxImages) : Pack(in)
SpecPack == InitPack /\ [][NextPack]_vars

\* sequence fusion applied to every bounded input
InitFuse ==
    /\ fz = FuseIdle
    /\ ModelIdle /\ ForwardIdle /\ ConfigIdle
    /\ dstep = DataStepIdle /\ pk = PackIdle
NextFuse == fz.pc = "idle" /\ \E in \in FusionInputs(MaxImages) : Merge(in)
SpecFuse == InitFuse /\ [][NextFuse]_vars

\* ------------------------------------------------------------------ claims
Returned == pc = "returned"
FusionModules == {"embedding", "gather", "pack_image_features",
                  "merge_input_ids_with_image_features", "language_model"}
EncoderModules == {"vision_model", "vision_projection"}

\* C1: the dict handed to context-parallel slicing has the key set of the
\* input batch, and a key's value is non-null iff its input value is non-null
\* and the key is tokens, attention_mask, media, num_media_tiles, image_sizes,
\* or position_ids on the first stage, or labels / loss_mask on the last stage.
C1_RequiredOnly ==
    dstep.pc = "done" =>
        /\ DOMAIN dstep.handed = DOMAIN dstep.batch
        /\ \A key \in DOMAIN dstep.batch :
              (dstep.handed[key] # "None") <=>
                  /\ dstep.batch[key] # "None"
                  /\ \/ key \in {"tokens", "attention_mask", "media",
                                 "num_media_tiles", "image_sizes"}
                     \/ key = "position_ids" /\ dstep.first
                     \/ key \in {"labels", "loss_mask"} /\ dstep.last
        /\ \A key \in DOMAIN dstep.batch : dstep.handed[key] \in {"None", "cuda"}

C1_Witness ==
    /\ dstep.pc = "done"
    /\ dstep.first /\ ~dstep.last
    /\ DOMAIN dstep.batch = BatchKeys
    /\ \A key \in BatchKeys : dstep.batch[key] = "cpu"
    /\ dstep.handed["position_ids"] = "cuda"
    /\ dstep.handed["labels"] = "None"
    /\ dstep.handed["cu_seqlens"] = "None"

\* C2 as stated: on a stage with the decoder, a call that returns gives the
\* pair (loss, adjusted loss mask) whenever labels are supplied and the raw
\* language-model output alone whenever they are not, whatever loss_mask is.
C2_PairWheneverLabels ==
    (Returned /\ model.add_decoder /\ out.result # "raised") =>
        IF args.labelsGiven THEN out.result = "pair" ELSE out.result = "output"

\* C2 amended: on a stage with the decoder, a call that returns gives the pair
\* exactly when both labels and loss_mask are supplied, and the language-model
\* output alone when either is missing.
C2_PairIffLabelsAndMask ==
    (Returned /\ model.add_decoder /\ out.result # "raised") =>
        /\ out.result \in {"pair", "output"}
        /\ out.result = "pair" <=> (args.labelsGiven /\ args.lossMaskGiven)
        /\ "language_model" \in out.invoked

C2_Witness ==
    /\ Returned /\ model.add_decoder
    /\ args.labelsGiven /\ ~args.lossMaskGiven
    /\ out.result = "output"

\* C3: once a forward call on an encoder stage with images has recorded the
\* media-token count in the inference cache, every later call with that same
\* inference_params invokes neither the vision encoder nor the projection.
C3_CacheShortcut ==
    (Returned /\ out.cachedBefore) => out.invoked \cap EncoderModules = {}

C7_SequenceParallelPadding ==
    (Returned /\ model.add_decoder /\ model.pre_process
        /\ model.sequence_parallel_lm) =>
        LET p == out.text.p
            L == args.L
            W == model.tp_world_size
        IN  /\ 0 <= p /\ p < W
            /\ (L + p) % W = 0
            /\ \A q \in 0..(p - 1) : (L + q) % W # 0
            /\ out.text.lang = L
            /\ out.text.padded <=> p # 0
            /\ out.text.stripped <=> p # 0

C7_Witness ==
    /\ Returned /\ model.add_decoder /\ model.pre_process
    /\ model.sequence_parallel_lm
    /\ out.text.p > 0 /\ out.text.padded /\ out.text.stripped
    /\ out.text.lang = args.L

\* C8: when the encoder ran on T >= 1 tiles of S tokens each and
\* num_media_tiles = [t_1..t_n] sums to T (one tile per image when it is not
\* given), the split succeeds and hands tile packing n tensors, the i-th of
\* shape (t_i, S, hidden_dim).
C8_SplitAlongTiles ==
    (Returned /\ model.add_decoder /\ args.T >= 1) =>
        LET sizes == NumMediaTiles(args)
        IN  /\ out.splitOk
            /\ out.pieces = [i \in 1..Len(sizes) |->
                               Tensor(sizes[i], TileSeqLen(model), "h_language")]

\* C9: the language embeddings, input_ids and position_ids passed to
\* merge_input_ids_with_image_features all have the text length L.
C9_TextSideAligned ==
    (Returned /\ model.pre_process
        /\ "merge_input_ids_with_image_features" \in out.invoked) =>
        /\ out.text.lang = args.L
        /\ out.text.ids = args.L
        /\ args.posGiven => out.text.pos = args.L

\* C10: for every accepted encoder_pipeline_model_parallel_size e in {0, 1}
\* (e > 1 is rejected), add_encoder holds exactly on the first stage, one of
\* add_encoder / add_decoder holds, with e = 1 and P >= 2 rank 0 is
\* encoder-only and the other ranks decoder-only, with e = 0 rank 0 holds both.
C10_PipelineRoles ==
    built.status # "none" =>
        /\ cfg.e > 1 => built.status = "AssertionError"
        /\ cfg.e \in {0, 1} =>
            /\ built.status = "model"
            /\ built.add_encoder <=> cfg.r = 0
            /\ built.add_encoder \/ built.add_decoder
            /\ (cfg.e = 1 /\ cfg.P >= 2) =>
                /\ cfg.r = 0 => (built.add_encoder /\ ~built.add_decoder)
                /\ cfg.r > 0 => (~built.add_encoder /\ built.add_decoder)
            /\ (cfg.e = 0 /\ cfg.r = 0) =>
                (built.add_encoder /\ built.add_decoder)

C10_Witness ==
    /\ built.status = "model"
    /\ cfg.e = 1 /\ cfg.P >= 2 /\ cfg.r = 0
    /\ built.add_encoder /\ ~built.add_decoder

\* the separator slots of a packed sequence
C6_NewlineSlots(seq) == Cardinality({j \in 1..Len(seq) : seq[j][1] = "newline"})

\* C6: an image whose tiles form an R x C grid (R, C >= 1) of tile_seq_len
\* tokens per tile packs to R*C*tile_seq_len + (R-1)*separator_slot_len
\* slots, a separator after every row but the last; an image with zero tiles
\* packs to the empty sequence, feature length 0, no separator; there is one
\* feature length per image.
C6_PackedLength ==
    (pk.pc = "done" /\ \A i \in 1..Len(pk.images) : ~ShapeMismatch(pk.images[i])) =>
        /\ pk.res.status = "ok"
        /\ Len(pk.res.feature_lens) = Len(pk.images)
        /\ Len(pk.res.packed) = Len(pk.images)
        /\ \A i \in 1..Len(pk.images) :
              LET img == pk.images[i]
                  seq == pk.res.packed[i]
                  fl == pk.res.feature_lens[i]
              IN  /\ fl = Len(seq)
                  /\ img.tiles = 0 => (fl = 0 /\ seq = <<>>)
                  /\ (img.R >= 1 /\ img.C >= 1 /\ img.tiles = img.R * img.C) =>
                        /\ fl = img.R * img.C * pk.S + (img.R - 1) * pk.sep
                        /\ C6_NewlineSlots(seq) = (img.R - 1) * pk.sep
                        /\ seq[fl][1] = "tile"

C6_Witness ==
    /\ pk.pc = "done"
    /\ pk.images = <<[tiles |-> 4, R |-> 2, C |-> 2], [tiles |-> 0, R |-> 0, C |-> 0]>>
    /\ pk.S = 2 /\ pk.sep = 1
    /\ pk.res.status = "ok"
    /\ pk.res.feature_lens = <<9, 0>>

\* sentinels among tokens 1..i-1
C5_SentinelsBefore(ids, i) ==
    Cardinality({j \in 1..(i - 1) : ids[j] = IMAGE_TOKEN_INDEX})

RECURSIVE C5_Width(_, _, _, _)
\* slots taken by tokens 1..i of an element whose first segment is base + 1
C5_Width(ids, i, lens, base) ==
    IF i = 0 THEN 0
    ELSE C5_Width(ids, i - 1, lens, base)
         + (IF ids[i] = IMAGE_TOKEN_INDEX
            THEN lens[base + C5_SentinelsBefore(ids, i) + 1] ELSE 1)

\* what the fused, padded element el must be for the text ids
C5_ElementFused(ids, lens, base, el, maxLen) ==
    LET k == Sentinels(ids)
    IN  /\ el.valid = (Len(ids) - k) + SumSeq(SubSeq(lens, base + 1, base + k))
        /\ \A i \in 1..Len(ids) :
              IF ids[i] = IMAGE_TOKEN_INDEX
              THEN LET seg == base + C5_SentinelsBefore(ids, i) + 1
                   IN  \A n \in 1..lens[seg] :
                          el.emb[C5_Width(ids, i - 1, lens, base) + n]
                              = <<"media", seg, n>>
              ELSE el.emb[C5_Width(ids, i, lens, base)] = <<"text", i, 0>>
        /\ \A j \in 1..el.valid :
              el.position_ids[j] = j - 1 /\ el.attention_mask[j] = 1
        /\ Len(el.emb) = maxLen /\ Len(el.attention_mask) = maxLen
        /\ Len(el.position_ids) = maxLen /\ Len(el.labels) = maxLen
        /\ Len(el.loss_mask) = maxLen
        /\ \A j \in (el.valid + 1)..maxLen :
              el.emb[j] = PadEmbedding /\ el.attention_mask[j] = 0

\* C5: when the sentinels of the batch match the media segments, each
\* element's combined length before padding is (text length - sentinels) + the
\* sum of its segments' feature lengths, tokens and segments keep their order,
\* position ids over the valid region are 0..length-1, and embeddings,
\* attention mask, position ids, labels and loss mask are all right-padded to
\* the batch maximum.
C5_FusedSequence ==
    (fz.pc = "done"
        /\ Sentinels(fz.ids1) + Sentinels(fz.ids2) = Len(fz.feature_lens)) =>
        /\ fz.res.status = "ok"
        /\ Len(fz.res.elems) = 2
        /\ fz.res.maxLen = Max2(fz.res.elems[1].valid, fz.res.elems[2].valid)
        /\ C5_ElementFused(fz.ids1, fz.feature_lens, 0,
                           fz.res.elems[1], fz.res.maxLen)
        /\ C5_ElementFused(fz.ids2, fz.feature_lens, Sentinels(fz.ids1),
                           fz.res.elems[2], fz.res.maxLen)

C5_Witness ==
    /\ fz.pc = "done"
    /\ fz.ids1 = <<5, IMAGE_TOKEN_INDEX, 5>>
    /\ fz.ids2 = <<5>>
    /\ fz.feature_lens = <<2>>
    /\ fz.res.status = "ok"
    /\ fz.res.maxLen = 4
    /\ fz.res.elems[1].position_ids = <<0, 1, 2, 3>>
    /\ fz.res.elems[2].valid = 1
    /\ fz.res.elems[2].attention_mask = <<1, 0, 0, 0>>

====
